---- MODULE Spec2Model ----
(***************************************************************************)
(* A model of the oauth-dropins request handlers:                          *)
(*   - dropbox.py     StartHandler.redirect_url, CallbackHandler.get,      *)
(*                    handle_exception, the DropboxCsrf / DropboxAuth      *)
(*                    datastore kinds;                                     *)
(*   - googleplus.py  init_json_service, StartHandler.to(...).Handler.get, *)
(*                    handle_exception, the GooglePlusAuth kind and the    *)
(*                    module globals json_service and oauth_decorator;     *)
(*   - twitter_auth.py signed_urlopen and auth_header.                     *)
(*                                                                         *)
(* Requests run concurrently (several instances share one datastore), so a *)
(* handler is cut into steps at its datastore writes: everything a handler *)
(* does between two writes touches only its own locals and is one step.    *)
(* Strings that the code parses or builds (the OAuth `state` parameter,    *)
(* URLs, POST data) are sequences of one-character strings.  A CSRF token  *)
(* (24 url-safe base64 characters in the SDK) is one symbol.               *)
(***************************************************************************)
EXTENDS Integers, Sequences, FiniteSets, TLC

\* ---------------------------------------------------------------- bounds

\* How many Dropbox start requests (hence DropboxCsrf ids) a run may hold.
MaxStarts == 2
\* The longest URL handed to signed_urlopen.
MaxUrlLen == 3

\* ---------------------------------------------------------------- values

None == "None"

\* `state` query parameter values a caller hands to /start.
StateSeq == <<"s1", "s2">>
States == {StateSeq[i] : i \in 1..Len(StateSeq)}
\* CSRF tokens DropboxOAuth2Flow.start may draw (os.urandom: collisions are
\* not excluded).
TokenSeq == <<"A", "B">>
Tokens == {TokenSeq[i] : i \in 1..Len(TokenSeq)}
\* The values of such a list are interchangeable, so an input is drawn among
\* the values in use and the first one that is not.
Draw(seq, used) ==
  {seq[i] : i \in {k \in 1..Len(seq) : \A j \in 1..(k - 1) : seq[j] \in used}}
\* Dropbox user ids and access tokens a token exchange may return.
Users == {"u1"}
AccessTokens == {"a1", "a2"}
\* Google+ people a People.get may return: id and displayName.
GUsers == {"g1"}
GNames == {"n1", "n2"}
\* The App Engine user whose CredentialsModel the decorator's store names.
CredKeys == {"k1"}

Digit == <<"0", "1", "2", "3", "4", "5", "6", "7", "8", "9">>

\* ------------------------------------------------------ string functions

\* Python's str(int) for a non-negative integer.
RECURSIVE str(_)
str(n) ==
  IF n < 10 THEN <<Digit[n + 1]>>
  ELSE str(n \div 10) \o <<Digit[(n % 10) + 1]>>

IsDigit(c) == \E d \in 1..10 : Digit[d] = c
DigitVal(c) == (CHOOSE d \in 1..10 : Digit[d] = c) - 1

RECURSIVE intval(_)
intval(s) ==
  IF Len(s) = 0 THEN 0
  ELSE 10 * intval(SubSeq(s, 1, Len(s) - 1)) + DigitVal(s[Len(s)])

\* Python's int(str): a ValueError for the empty string and for a character
\* that is no digit (ok = FALSE), the decimal value otherwise.
int(s) ==
  IF Len(s) > 0 /\ \A i \in 1..Len(s) : IsDigit(s[i])
  THEN [ok |-> TRUE, val |-> intval(s)]
  ELSE [ok |-> FALSE, val |-> 0]

\* Python's str.find: the first index of c in s (1-based here), 0 if absent.
find(s, c) ==
  IF \E i \in 1..Len(s) : s[i] = c
  THEN CHOOSE i \in 1..Len(s) : s[i] = c /\ \A j \in 1..(i - 1) : s[j] # c
  ELSE 0

\* Python's str.split(sep): the list of the pieces between separators.
RECURSIVE split(_, _)
split(s, sep) ==
  IF find(s, sep) = 0 THEN <<s>>
  ELSE <<SubSeq(s, 1, find(s, sep) - 1)>>
         \o split(SubSeq(s, find(s, sep) + 1, Len(s)), sep)

\* ----------------------------------------------------------------- state

VARIABLES
  csrfs,            \* datastore kind DropboxCsrf: id -> [token, state]
  auths,            \* datastore kind DropboxAuth: user id -> access_token_str
  gauths,           \* datastore kind GooglePlusAuth: user id -> [creds_model, user_json]
  json_service,     \* googleplus.py module global
  oauth_decorator,  \* googleplus.py module global
  reqs,             \* the requests inside a handler: slot -> locals
  last,             \* the response of the request that finished last
  nstarts,          \* history: how many Dropbox flows were started
  owner,            \* history: DropboxCsrf id -> the flow whose start put it last
  issued,           \* history: the redirects /dropbox/start has answered
  tw,               \* one signed_urlopen call: its arguments and what it did
  serving           \* the provider whose endpoints the run's requests go to

vars == <<csrfs, auths, gauths, json_service, oauth_decorator, reqs, last,
          nstarts, owner, issued, tw, serving>>

dsvars == <<csrfs, auths, gauths>>
gvars == <<json_service, oauth_decorator>>
hvars == <<nstarts, owner, issued, serving>>

\* The server instances: each runs one request at a time, so two requests
\* may be inside a handler at once.
Slots == {1, 2}

\* A slot no request occupies, and the locals of a request in a handler.
Idle ==
  [kind |-> "idle", pc |-> "none", flow |-> 0, state |-> None,
   qstate |-> <<>>, csrf_id |-> 0, csrf_token |-> None, csrf_state |-> None,
   access_token |-> None, user_id |-> None,
   user_name |-> None, cached |-> FALSE, replay |-> FALSE]

\* The response of a request.  to: where a redirect leads ("provider": the
\* consent screen, "completion": the caller-supplied completion URL);
\* handler: "own" when the response was made by the handler or by the
\* module's handle_exception, "generic" when the exception went on to
\* webutil's shared handler (the status is then that handler's choice and
\* reads "generic"); exc: the exception the request ended with; sdk: the
\* provider's SDK raised it.
NoResponse ==
  [kind |-> "none", status |-> None, to |-> None, handler |-> None,
   exc |-> None, sdk |-> FALSE, auth |-> None, state |-> None, flow |-> 0,
   url_state |-> <<>>, csrf_id |-> 0, csrf_token |-> None,
   replay |-> FALSE, replaced |-> FALSE]

FreeSlot(r) == reqs[r].kind = "idle" /\ \A q \in 1..(r - 1) : reqs[q].kind # "idle"


\* ------------------------------------------------------------- datastore

\* ndb Model.put() under a complete key: the entity replaces whatever the
\* key held.
put(kind, id, entity) ==
  [k \in (DOMAIN kind) \cup {id} |-> IF k = id THEN entity ELSE kind[k]]

\* A plausible slip: every new entity gets the same id.
AllocateIdFixed(kind) == 1

\* ndb Model.put() under an incomplete key (DropboxCsrf(state=state).put()):
\* the datastore allocates an id no entity of the kind has.
AllocateId(kind) ==
  CHOOSE id \in 1..(Cardinality(DOMAIN kind) + 1) :
    id \notin DOMAIN kind /\ \A j \in 1..(id - 1) : j \in DOMAIN kind

\* ------------------------------------------------- responses and finish()

Response(kind, status, to, handler) ==
  [NoResponse EXCEPT !.kind = kind, !.status = status, !.to = to,
                     !.handler = handler]

\* handlers.CallbackHandler.finish(auth_entity, state): a redirect to the
\* completion URL that names the auth entity's key (none when the user
\* declined) and carries the state it was given.
finish(kind, auth, state) ==
  [Response(kind, "302", "completion", "own") EXCEPT !.auth = auth, !.state = state]

\* ------------------------------------------------------------ dropbox.py

\* A plausible slip: BadStateException left out of the 400 tuple.
handle_exception_no_badstate(e) ==
  IF e = "CsrfException" THEN [status |-> "403", handler |-> "own"]
  ELSE IF e \in {"BadRequestException", "ProviderException"}
       THEN [status |-> "400", handler |-> "own"]
       ELSE [status |-> "generic", handler |-> "generic"]

\* dropbox.handle_exception: the status an exception of type e ends with.
\* What is neither a CsrfException nor one of the three 400 types goes to
\* webutil's handle_exception.
handle_exception(e) ==
  IF e = "CsrfException" THEN [status |-> "403", handler |-> "own"]
  ELSE IF e \in {"BadRequestException", "BadStateException", "ProviderException"}
       THEN [status |-> "400", handler |-> "own"]
       ELSE [status |-> "generic", handler |-> "generic"]

\* The response of a Dropbox request that ended with exception e.
Failed(kind, e, sdk) ==
  [Response(kind, handle_exception(e).status, None, handle_exception(e).handler)
     EXCEPT !.exc = e, !.sdk = sdk]

\* DropboxOAuth2Flow.start(url_state): the SDK stores the token it drew in
\* the session and returns the authorize URL, whose state parameter is
\* token + "|" + url_state.
flow_start(token, url_state) == <<token, "|">> \o url_state

\* A plausible slip: the token is set on the entity but never written.
store_token_forgotten(kind, id, csrf) == kind

\* csrf.token = csrf_holder[CSRF_PARAM]; csrf.put()
store_token(kind, id, csrf) == put(kind, id, csrf)

UsedStates == {csrfs[id].state : id \in DOMAIN csrfs}
UsedTokens == {csrfs[id].token : id \in DOMAIN csrfs} \ {None}

\* StartHandler.redirect_url, first part: csrf = DropboxCsrf(state=state);
\* csrf.put().
StartPutCsrf(r, s) ==
  /\ FreeSlot(r)
  /\ serving = "dropbox"
  /\ nstarts < MaxStarts
  /\ LET id == AllocateId(csrfs)
         f == nstarts + 1
     IN /\ csrfs' = put(csrfs, id, [token |-> None, state |-> s])
        /\ reqs' = [reqs EXCEPT ![r] =
                      [Idle EXCEPT !.kind = "start", !.pc = "token", !.flow = f,
                                   !.state = s, !.csrf_id = id]]
        /\ nstarts' = f
        /\ owner' = put(owner, id, f)
  /\ UNCHANGED <<auths, gauths, gvars, last, issued, tw, serving>>

\* StartHandler.redirect_url, second part: flow.start(url_state=str(id)),
\* the token put, and the redirect to the auth URL that
\* handlers.StartHandler makes of the returned URL.
StartPutToken(r, t) ==
  /\ reqs[r].kind = "start"
  /\ reqs[r].pc = "token"
  /\ LET id == reqs[r].csrf_id
         auth_url == flow_start(t, str(id))
         csrf == [token |-> t, state |-> reqs[r].state]
     IN /\ csrfs' = store_token(csrfs, id, csrf)
        /\ owner' = put(owner, id, reqs[r].flow)
        /\ issued' = issued \cup {[flow |-> reqs[r].flow, url_state |-> auth_url,
                                   state |-> reqs[r].state]}
        /\ last' = [Response("start", "302", "provider", "own")
                      EXCEPT !.url_state = auth_url, !.flow = reqs[r].flow,
                             !.state = reqs[r].state, !.csrf_id = id,
                             !.csrf_token = t]
  /\ reqs' = [reqs EXCEPT ![r] = Idle]
  /\ UNCHANGED <<auths, gauths, gvars, nstarts, tw, serving>>


\* What the provider sends back to the callback URL (code, error) and, when
\* the SDK then exchanges the code, what the exchange returns.
ProviderAnswers ==
  {[code |-> "c", error |-> None, ok |-> TRUE, access_token |-> a, user_id |-> u] :
     a \in AccessTokens, u \in Users}
  \cup {[code |-> p[1], error |-> p[2], ok |-> FALSE, access_token |-> None,
         user_id |-> None] :
          p \in {<<"c", None>>, <<None, None>>, <<"c", "access_denied">>,
                 <<None, "access_denied">>, <<None, "server_error">>}}

\* DropboxOAuth2Flow.finish(query_params) with the session {CSRF_PARAM:
\* session_token}, as CallbackHandler.get calls it: the SDK's checks in its
\* order (well-formed parameters, a token in the session, the token before
\* the first "|" of state equal to the session's, the provider's error),
\* then the token exchange.  The set of the ways the call may end: a
\* session token of None is no token, and the SDK raises a
\* BadStateException or, from len(None), a TypeError, depending on its
\* release.
flow_finish(session_token, qstate, prov) ==
  LET pos == find(qstate, "|")
      given == IF pos = 0 THEN qstate ELSE SubSeq(qstate, 1, pos - 1)
      excs ==
        IF (prov.error # None) = (prov.code # None) THEN {"BadRequestException"}
        ELSE IF session_token = None THEN {"BadStateException", "TypeError"}
        ELSE IF <<session_token>> # given THEN {"CsrfException"}
        ELSE IF prov.error = "access_denied" THEN {"NotApprovedException"}
        ELSE IF prov.error # None THEN {"ProviderException"}
        ELSE IF ~prov.ok THEN {"ErrorResponse"}
        ELSE {None}
  IN {[exc |-> exc,
       access_token |-> IF exc = None THEN prov.access_token ELSE None,
       user_id |-> IF exc = None THEN prov.user_id ELSE None] : exc \in excs}

\* A plausible slip: the session is filled from the request, not from the
\* stored entity.
csrf_holder_from_request(csrf, qstate) ==
  IF find(qstate, "|") = 2 THEN qstate[1] ELSE None

\* csrf_holder = {CSRF_PARAM: csrf.token}
csrf_holder(csrf, qstate) == csrf.token

\* A plausible slip: no except clause for NotApprovedException, which then
\* takes the BaseException path.
declined_reraised(csrf, qstate) == Failed("callback", "NotApprovedException", TRUE)

\* except NotApprovedException: self.finish(None, state=csrf.state); return
declined(csrf, qstate) ==
  [finish("callback", None, csrf.state) EXCEPT !.exc = "NotApprovedException",
                                                !.sdk = TRUE, !.url_state = qstate]

\* csrf_id = self.request.get('state').split('|')[1]  (Python's second piece)
csrf_id_param(qstate) == split(qstate, "|")[2]

\* CallbackHandler.get up to the token exchange: the CSRF lookup, flow.finish
\* and the two except clauses; the set of the ways it may go.  done: the
\* request is answered (resp); otherwise it goes on to store the auth entity
\* with the locals req.
callback_get(kind, qstate, prov) ==
  LET answered(resp) == [done |-> TRUE, resp |-> resp, req |-> Idle]
  IN
  IF Len(split(qstate, "|")) < 2
    THEN {answered(Failed("callback", "IndexError", FALSE))}
  ELSE IF ~int(csrf_id_param(qstate)).ok
    THEN {answered(Failed("callback", "ValueError", FALSE))}
  ELSE IF int(csrf_id_param(qstate)).val \notin DOMAIN kind
    THEN {answered(Failed("callback", "HTTPBadRequest", FALSE))}
  ELSE
    LET id == int(csrf_id_param(qstate)).val
        csrf == kind[id]
    IN {IF got.exc = "NotApprovedException" THEN answered(declined(csrf, qstate))
        ELSE IF got.exc # None THEN answered(Failed("callback", got.exc, TRUE))
        ELSE [done |-> FALSE, resp |-> NoResponse,
              req |-> [Idle EXCEPT !.kind = "callback", !.pc = "store",
                                   !.qstate = qstate, !.csrf_id = id,
                                   !.csrf_token = csrf.token,
                                   !.csrf_state = csrf.state,
                                   !.access_token = got.access_token,
                                   !.user_id = got.user_id]] :
          got \in flow_finish(csrf_holder(csrf, qstate), qstate, prov)}

\* The state parameters a callback may arrive with, those a start has
\* issued among them: every token with an id (of an entity or not), with
\* no digits, or with no "|".
ForgedStates ==
  {<<t, "|">> \o d : t \in Tokens,
     d \in {str(n) : n \in 1..(MaxStarts + 1)} \cup {<<"x">>}}
  \cup {<<t>> : t \in Tokens}

\* The flow a callback belongs to: the one whose start has issued the state
\* it arrives with (0: no start has).
FlowOf(qstate) ==
  IF \E i \in issued : i.url_state = qstate
  THEN (CHOOSE i \in issued : i.url_state = qstate).flow
  ELSE 0

\* History: the request answered last was a callback that stored an auth
\* entity after matching DropboxCsrf entity id.
Completed(id) ==
  last.kind = "callback" /\ last.auth # None /\ last.csrf_id = id

\* CallbackHandler.get, lines 115-136.
CallbackGet(r, qstate, prov) ==
  /\ FreeSlot(r)
  /\ serving = "dropbox"
  /\ \E res \in callback_get(csrfs, qstate, prov) :
        IF res.done
        THEN /\ last' = [res.resp EXCEPT !.flow = FlowOf(qstate)]
             /\ reqs' = reqs
        ELSE /\ reqs' = [reqs EXCEPT ![r] =
                           [res.req EXCEPT !.flow = FlowOf(qstate),
                                           !.replay = Completed(res.req.csrf_id)]]
             /\ last' = last
  /\ UNCHANGED <<dsvars, gvars, hvars, tw>>

\* A plausible slip: finish() called without the state.
finish_state_missing(req) == None

\* self.finish(auth, state=csrf.state)
finish_state(req) == req.csrf_state

\* A plausible slip: an auth entity is never overwritten once it exists.
store_auth_once(kind, user_id, access_token) ==
  IF user_id \in DOMAIN kind THEN kind ELSE put(kind, user_id, access_token)

\* auth = DropboxAuth(id=user_id, access_token_str=access_token); auth.put()
store_auth(kind, user_id, access_token) == put(kind, user_id, access_token)

\* CallbackHandler.get, lines 138-141.
CallbackStore(r) ==
  /\ reqs[r].kind = "callback"
  /\ reqs[r].pc = "store"
  /\ auths' = store_auth(auths, reqs[r].user_id, reqs[r].access_token)
  /\ last' = [finish("callback", reqs[r].user_id, finish_state(reqs[r]))
                EXCEPT !.flow = reqs[r].flow, !.url_state = reqs[r].qstate,
                       !.csrf_id = reqs[r].csrf_id,
                       !.csrf_token = reqs[r].csrf_token,
                       !.replay = reqs[r].replay,
                       !.replaced = /\ reqs[r].user_id \in DOMAIN auths
                                    /\ auths[reqs[r].user_id] # reqs[r].access_token]
  /\ reqs' = [reqs EXCEPT ![r] = Idle]
  /\ UNCHANGED <<csrfs, gauths, gvars, hvars, tw>>


\* --------------------------------------------------------- googleplus.py

\* What json_service.people().get(userId='me').execute(...) may do: return
\* a person, raise an HttpError with the API's status, or fail otherwise.
ApiResults ==
  {[exc |-> None, status |-> None, id |-> g, name |-> n] : g \in GUsers, n \in GNames}
  \cup {[exc |-> "HttpError", status |-> "401", id |-> None, name |-> None],
        [exc |-> "URLError", status |-> None, id |-> None, name |-> None]}

\* googleplus.handle_exception: an HttpError is answered with its own
\* status, anything else goes to webutil's handle_exception.
gplus_handle_exception(api) ==
  IF api.exc = "HttpError"
  THEN [Response("gplus", api.status, None, "own") EXCEPT !.exc = api.exc]
  ELSE [Response("gplus", "generic", None, "generic") EXCEPT !.exc = api.exc]

\* json.dumps(user) of the person {id, displayName}.
json_dumps(id, name) == <<"{", "id", ":", id, ",", "displayName", ":", name, "}">>

\* A plausible slip: the service is built on every request.
needs_build_always(service) == TRUE

\* init_json_service: `if json_service is None`.
needs_build(service) == service = None

\* Handler.get from the People call to the end of the except clause.
gplus_api(s, api, cached) ==
  IF api.exc # None
  THEN [done |-> TRUE, resp |-> [gplus_handle_exception(api) EXCEPT !.state = s],
        req |-> Idle]
  ELSE [done |-> FALSE, resp |-> NoResponse,
        req |-> [Idle EXCEPT !.kind = "gplus", !.pc = "gstore", !.state = s,
                             !.user_id = api.id, !.user_name = api.name,
                             !.cached = cached]]

\* Handler.get, lines 148-162, for a request with state s.  The decorator
\* (oauth_required) sends a user without stored credentials to the consent
\* screen; otherwise the handler reads json_service, and builds it in a
\* further step when it found none.
GPlusGet(r, s, has_creds, api) ==
  /\ FreeSlot(r)
  /\ serving = "googleplus"
  /\ oauth_decorator # None
  /\ IF ~has_creds
     THEN /\ last' = [Response("gplus", "302", "provider", "own") EXCEPT !.state = s]
          /\ reqs' = reqs
     ELSE IF needs_build(json_service)
     THEN /\ reqs' = [reqs EXCEPT ![r] =
                        [Idle EXCEPT !.kind = "gplus", !.pc = "build", !.state = s,
                                     !.cached = json_service # None]]
          /\ last' = last
     ELSE LET res == gplus_api(s, api, json_service # None)
          IN IF res.done
             THEN last' = res.resp /\ reqs' = reqs
             ELSE reqs' = [reqs EXCEPT ![r] = res.req] /\ last' = last
  /\ UNCHANGED <<dsvars, gvars, hvars, tw>>

\* init_json_service, line 40: json_service = discovery.build('plus', 'v1'),
\* then the People call.
GPlusBuild(r, api) ==
  /\ reqs[r].kind = "gplus"
  /\ reqs[r].pc = "build"
  /\ json_service' = "plus_v1"
  /\ LET res == gplus_api(reqs[r].state, api, reqs[r].cached)
     IN IF res.done
        THEN last' = res.resp /\ reqs' = [reqs EXCEPT ![r] = Idle]
        ELSE reqs' = [reqs EXCEPT ![r] = res.req] /\ last' = last
  /\ UNCHANGED <<dsvars, oauth_decorator, hvars, tw>>

\* Handler.get, lines 165-171: the GooglePlusAuth put and finish().
GPlusStore(r, key) ==
  /\ reqs[r].kind = "gplus"
  /\ reqs[r].pc = "gstore"
  /\ LET auth == [creds_model |-> key,
                  user_json |-> json_dumps(reqs[r].user_id, reqs[r].user_name)]
     IN /\ gauths' = put(gauths, reqs[r].user_id, auth)
        /\ last' = [finish("gplus", reqs[r].user_id, reqs[r].state)
                      EXCEPT !.replaced = /\ reqs[r].user_id \in DOMAIN gauths
                                          /\ gauths[reqs[r].user_id] # auth]
  /\ reqs' = [reqs EXCEPT ![r] = Idle]
  /\ UNCHANGED <<csrfs, auths, gvars, hvars, tw>>

\* -------------------------------------------------------- twitter_auth.py

UrlChars == {"u", "?", "&"}
DataChars == {"k", "="}

RECURSIVE Strings(_, _)
Strings(chars, n) ==
  IF n = 0 THEN {<<>>}
  ELSE Strings(chars, n - 1)
         \cup {s \o <<c>> : s \in Strings(chars, n - 1), c \in chars}

\* The data keyword: not given (Python's None) or a string, maybe empty.
DataArgs ==
  {[given |-> FALSE, val |-> <<>>]}
  \cup {[given |-> TRUE, val |-> d] : d \in Strings(DataChars, 2)}

\* What urllib2.urlopen may do.
FetchOutcomes == {"response", "HTTPError", "URLError"}

\* auth_header(url, token_key, token_secret, method): the OAuth1 header
\* signs the method and the URL with the app's and the token's keys.
auth_header(url, method) == [method |-> method, url |-> url]

\* urllib2.Request(url, data=...).get_method(): POST when data is not None.
get_method(body) == IF body.given THEN "POST" ELSE "GET"

\* signed_urlopen(url, token_key, token_secret, data=...): what it signs,
\* what it hands to urllib2, and how the call ends.
signed_urlopen(url, data, fetch) ==
  LET post == data.given /\ data.val # <<>>
      method == IF post THEN "POST" ELSE "GET"
      url2 == IF post
              THEN url \o <<IF \E i \in 1..Len(url) : url[i] = "?" THEN "&" ELSE "?">>
                       \o data.val
              ELSE url
      body == IF post THEN [given |-> TRUE, val |-> <<>>] ELSE data
  IN [pc |-> "done", url |-> url, data |-> data, fetch |-> fetch,
      signed |-> auth_header(url2, method), sent_url |-> url2, body |-> body,
      sent_method |-> get_method(body),
      raised |-> IF fetch = "response" THEN None ELSE fetch]

TwIdle ==
  [pc |-> "idle", url |-> <<>>, data |-> [given |-> FALSE, val |-> <<>>],
   fetch |-> None, signed |-> auth_header(<<>>, None), sent_url |-> <<>>,
   body |-> [given |-> FALSE, val |-> <<>>], sent_method |-> None,
   raised |-> None]

TwCall(url, data, fetch) ==
  [TwIdle EXCEPT !.pc = "call", !.url = url, !.data = data, !.fetch = fetch]

TwSignedUrlopen ==
  /\ tw.pc = "call"
  /\ tw' = signed_urlopen(tw.url, tw.data, tw.fetch)
  /\ UNCHANGED <<dsvars, gvars, reqs, last, hvars>>

\* --------------------------------------------------------- specifications

Empty == [k \in {} |-> None]

InitHandlers ==
  /\ csrfs = Empty
  /\ auths = Empty
  /\ gauths = Empty
  /\ json_service = None
  /\ oauth_decorator = "OAuth2Decorator"
  /\ reqs = [r \in Slots |-> Idle]
  /\ last = NoResponse
  /\ nstarts = 0
  /\ owner = Empty
  /\ issued = {}

\* The handlers of the two providers have no variable in common (their
\* datastore kinds differ, the module globals are Google+'s), so their
\* steps commute and a run sends its requests to one of them.
Init == InitHandlers /\ tw = TwIdle /\ serving \in {"dropbox", "googleplus"}

Next ==
  \/ \E r \in Slots, s \in Draw(StateSeq, UsedStates) : StartPutCsrf(r, s)
  \/ \E r \in Slots, t \in Draw(TokenSeq, UsedTokens) : StartPutToken(r, t)
  \/ \E r \in Slots, qstate \in ForgedStates, prov \in ProviderAnswers :
       CallbackGet(r, qstate, prov)
  \/ \E r \in Slots : CallbackStore(r)
  \/ \E r \in Slots, s \in States, has_creds \in BOOLEAN, api \in ApiResults :
       GPlusGet(r, s, has_creds, api)
  \/ \E r \in Slots, api \in ApiResults : GPlusBuild(r, api)
  \/ \E r \in Slots, key \in CredKeys : GPlusStore(r, key)

Spec == Init /\ [][Next]_vars

\* One signed_urlopen call on every URL, data argument and fetch outcome.
InitTw ==
  /\ InitHandlers
  /\ serving = None
  /\ tw \in {TwCall(url, data, fetch) :
               url \in Strings(UrlChars, MaxUrlLen) \ {<<>>},
               data \in DataArgs, fetch \in FetchOutcomes}

NextTw == TwSignedUrlopen

SpecTw == InitTw /\ [][NextTw]_vars


\* ------------------------------------------------------------ properties

\* The pieces of a callback's state parameter.
GivenToken(qstate) == split(qstate, "|")[1]
NamesEntity(qstate) ==
  /\ Len(split(qstate, "|")) >= 2
  /\ int(split(qstate, "|")[2]).ok
  /\ int(split(qstate, "|")[2]).val \in DOMAIN csrfs
NamedId(qstate) == int(split(qstate, "|")[2]).val

\* The state parameter names a DropboxCsrf entity whose token a start
\* request has stored and issued, and presents that token.
PresentsStoredToken(qstate) ==
  /\ NamesEntity(qstate)
  /\ csrfs[NamedId(qstate)].token \in Tokens
  /\ GivenToken(qstate) = <<csrfs[NamedId(qstate)].token>>
  /\ \E i \in issued :
       i.url_state = <<csrfs[NamedId(qstate)].token, "|">> \o str(NamedId(qstate))

\* The statuses of a rejected request ("generic": the one webutil's shared
\* handler gives the exception).
ErrorStatuses == {"400", "403", "generic"}

\* C1: a Dropbox callback goes on to store a DropboxAuth, or is answered
\* with the redirect to the completion URL, only if its state names a
\* DropboxCsrf entity and presents the token a start stored in it; a
\* callback answered otherwise is answered with an error status and no auth
\* entity.
C1_CallbackNeedsStoredToken ==
  /\ \A r \in Slots :
       reqs[r].kind = "callback" => PresentsStoredToken(reqs[r].qstate)
  /\ last.kind = "callback" =>
       IF last.to = "completion"
       THEN PresentsStoredToken(last.url_state)
       ELSE last.status \in ErrorStatuses /\ last.auth = None

\* C1's case: a callback that presented the stored token has stored its
\* auth entity, while another entity holds a different token.
C1_Witness ==
  /\ last.kind = "callback"
  /\ last.auth \in DOMAIN auths
  /\ PresentsStoredToken(last.url_state)
  /\ \E id \in DOMAIN csrfs : <<csrfs[id].token>> # GivenToken(last.url_state)

\* The callback that was answered last belongs to a flow: a start has
\* issued the state it came with.
FlowCallback == last.kind = "callback" /\ last.flow # 0

FlowState(f) == (CHOOSE i \in issued : i.flow = f).state

\* C2 as stated: the callback of a flow always redirects to the completion
\* URL with the flow's state, whether it succeeds or fails.
C2_EchoOnSuccessOrFailure ==
  FlowCallback => last.to = "completion" /\ last.state = FlowState(last.flow)

\* The Google+ handler's last step hands the request's state to finish().
GPlusEchoes ==
  \A r \in Slots :
    (reqs[r].kind = "gplus" /\ reqs[r].pc = "gstore" /\ reqs'[r] = Idle)
      => /\ last'.kind = "gplus"
         /\ last'.to = "completion"
         /\ last'.state = reqs[r].state

\* C2, amended: whenever the callback of a flow started with state s
\* redirects to the completion URL (the exchange succeeded, or the user
\* declined), the redirect carries exactly s; the Google+ handler passes its
\* request's state to the redirect.
C2_EchoOnRedirect ==
  /\ [](FlowCallback /\ last.to = "completion"
          => last.state = FlowState(last.flow))
  /\ [][GPlusEchoes]_vars

\* C2's case: flows with different states have been started, and the
\* callback of the second has ended with the declined redirect.
C2_Witness ==
  /\ FlowCallback
  /\ last.to = "completion"
  /\ last.auth = None
  /\ last.flow = 2
  /\ \E i \in issued : i.flow = 1 /\ i.state # last.state

\* C3 as stated: no callback completes with a DropboxCsrf entity that an
\* earlier callback has already completed with.
C3_CsrfSingleUse ==
  ~(last.kind = "callback" /\ last.auth # None /\ last.replay)

\* The step answers a Dropbox callback directly (no request in a handler
\* moves) with the declined redirect.
DeclineStep ==
  /\ reqs' = reqs
  /\ last'.kind = "callback"
  /\ last'.exc = "NotApprovedException"

\* C4: a callback whose token exchange raises NotApprovedException is
\* answered with the redirect to the completion URL, with no auth entity
\* and the state stored in the DropboxCsrf entity it named, and the
\* DropboxAuth entities are as before.
C4_DeclinedCompletes ==
  /\ [](last.kind = "callback" /\ last.exc = "NotApprovedException"
          => /\ last.status = "302"
             /\ last.to = "completion"
             /\ last.auth = None
             /\ NamesEntity(last.url_state)
             /\ last.state = csrfs[NamedId(last.url_state)].state)
  /\ [][DeclineStep => auths' = auths]_vars

\* C4's case: the user declined while an auth entity was stored.
C4_Witness ==
  /\ last.kind = "callback"
  /\ last.exc = "NotApprovedException"
  /\ auths # Empty

\* How handle_exception must answer an exception of the SDK.
TranslatedToStatus ==
  /\ last.exc = "CsrfException" => last.status = "403"
  /\ last.exc \in {"BadRequestException", "BadStateException", "ProviderException"}
       => last.status = "400"
  /\ last.exc \notin {"CsrfException", "BadRequestException", "BadStateException",
                      "ProviderException"}
       => last.handler = "generic"
  /\ last.to # "completion"

\* C5 as stated: every exception of the SDK in a Dropbox request ends as
\* 403 (CsrfException), as 400 (the three bad request types) or in the
\* shared handler, and none ends in a completion.
C5_AllSdkExceptionsTranslated ==
  (last.kind \in {"start", "callback"} /\ last.sdk) => TranslatedToStatus

\* C5, amended: so it is for every exception of the SDK but
\* NotApprovedException, which the callback catches itself and answers with
\* the declined redirect, storing no auth entity.
C5_SdkExceptionsButDeclined ==
  (last.kind \in {"start", "callback"} /\ last.sdk) =>
    IF last.exc = "NotApprovedException"
    THEN last.status = "302" /\ last.to = "completion" /\ last.auth = None
    ELSE TranslatedToStatus

\* C5's case: the SDK found no token in the session (the callback read the
\* entity between the two puts of its start).
C5_Witness ==
  /\ last.kind = "callback"
  /\ last.sdk
  /\ last.exc = "BadStateException"

\* C6 as stated: an auth entity that exists is never changed.
C6_AuthNeverMutated ==
  [][/\ \A u \in DOMAIN auths : u \in DOMAIN auths' /\ auths'[u] = auths[u]
     /\ \A g \in DOMAIN gauths : g \in DOMAIN gauths' /\ gauths'[g] = gauths[g]]_vars

\* The last step of a successful callback of either provider.
DropboxStoreStep(r) ==
  reqs[r].kind = "callback" /\ reqs[r].pc = "store" /\ reqs'[r] = Idle
GPlusStoreStep(r) ==
  reqs[r].kind = "gplus" /\ reqs[r].pc = "gstore" /\ reqs'[r] = Idle

\* C6, amended: auth entities change in the last step of a successful
\* callback only, and that step puts the entity under the user id with the
\* credential the callback obtained, replacing what an earlier callback
\* stored for that user; no entity is deleted.
C6_AuthPutBySuccessfulCallback ==
  [][/\ \A r \in Slots :
          DropboxStoreStep(r) =>
            auths' = put(auths, reqs[r].user_id, reqs[r].access_token)
     /\ auths' # auths => \E r \in Slots : DropboxStoreStep(r)
     /\ gauths' # gauths => \E r \in Slots : GPlusStoreStep(r)
     /\ DOMAIN auths \subseteq DOMAIN auths'
     /\ DOMAIN gauths \subseteq DOMAIN gauths']_vars

\* C6's case: a second successful callback for a user id has replaced the
\* stored credential.
C6_Witness ==
  /\ last.kind = "callback"
  /\ last.auth \in DOMAIN auths
  /\ last.replaced

\* C7: the order of a flow's steps.  The redirect to the auth URL names a
\* DropboxCsrf entity that is stored with the URL's token; a request holds
\* an exchanged access token only as a callback whose state a start has
\* issued a token for; auth entities are put only by a callback that holds
\* an exchanged token; a redirect that names an auth entity names a stored
\* one.
C7_StepOrder ==
  /\ [](/\ (last.kind = "start" /\ last.to = "provider")
             => PresentsStoredToken(last.url_state)
        /\ \A r \in Slots :
             /\ reqs[r].kind = "start" => reqs[r].csrf_id \in DOMAIN csrfs
             /\ reqs[r].access_token # None
                  => reqs[r].kind = "callback" /\ PresentsStoredToken(reqs[r].qstate)
        /\ (last.kind = "callback" /\ last.auth # None) => last.auth \in DOMAIN auths
        /\ (last.kind = "gplus" /\ last.auth # None) => last.auth \in DOMAIN gauths)
  /\ [][auths' # auths =>
          \E r \in Slots : DropboxStoreStep(r) /\ reqs[r].access_token \in AccessTokens]_vars

\* C7's case: a whole flow has run, from the start to the redirect that
\* names the stored auth entity.
C7_Witness ==
  /\ FlowCallback
  /\ last.to = "completion"
  /\ last.auth \in DOMAIN auths
  /\ PresentsStoredToken(last.url_state)

\* C8 as stated: no handler writes a variable that outlives its request,
\* the datastore apart.
C8_NoSharedGlobals ==
  [][json_service' = json_service /\ oauth_decorator' = oauth_decorator]_vars

GPlusBuildStep(r) ==
  reqs[r].kind = "gplus" /\ reqs[r].pc = "build" /\ reqs'[r] # reqs[r]

\* C8, amended: besides the datastore the handlers share googleplus.py's
\* module globals.  json_service is assigned only by a Google+ request that
\* found it unset, is set whenever a request has called the API, and once
\* set is never changed; oauth_decorator is never rebound.
C8_GlobalsSetOnce ==
  /\ [](\A r \in Slots :
          (reqs[r].kind = "gplus" /\ reqs[r].pc = "gstore") => json_service # None)
  /\ [][/\ json_service' # json_service =>
             json_service = None /\ \E r \in Slots : GPlusBuildStep(r)
        /\ \A r \in Slots :
             GPlusBuildStep(r) => ~reqs[r].cached /\ json_service' # None
        /\ oauth_decorator' = oauth_decorator]_vars

\* C8's case: a request has called the API with the service that another
\* request built.
C8_Witness ==
  \E r \in Slots :
    reqs[r].kind = "gplus" /\ reqs[r].pc = "gstore" /\ reqs[r].cached

\* The DropboxCsrf entity of flow f: the one its start put.
FlowIssue(f) == CHOOSE i \in issued : i.flow = f

OwnEntity(f, id, token, state) ==
  /\ id \in DOMAIN owner
  /\ owner[id] = f
  /\ FlowIssue(f).url_state = <<token, "|">> \o str(id)
  /\ FlowIssue(f).state = state

\* C9: every start has put an entity of its own (as many entities as
\* starts, two starts in progress hold different ids), and the callback of
\* a flow checks the token and finishes with the state of the entity its
\* own start put.
C9_FlowsKeepApart ==
  /\ Cardinality(DOMAIN csrfs) = nstarts
  /\ \A id \in DOMAIN csrfs : id \in DOMAIN owner
  /\ \A r, q \in Slots :
       (r # q /\ reqs[r].kind = "start" /\ reqs[q].kind = "start")
         => reqs[r].csrf_id # reqs[q].csrf_id
  /\ \A r \in Slots :
       (reqs[r].kind = "callback" /\ reqs[r].flow # 0)
         => OwnEntity(reqs[r].flow, reqs[r].csrf_id, reqs[r].csrf_token,
                      reqs[r].csrf_state)
  /\ (FlowCallback /\ last.auth # None)
       => OwnEntity(last.flow, last.csrf_id, last.csrf_token, last.state)

\* C9's case: the callback of the second flow has completed while the
\* callback of the first is still in its handler.
C9_Witness ==
  /\ FlowCallback
  /\ last.auth # None
  /\ last.flow = 2
  /\ \E r \in Slots : reqs[r].kind = "callback" /\ reqs[r].flow = 1

\* C10 as stated: a POST is sent exactly when data is given and not empty;
\* then the data is appended to the URL after "&" or "?", the body is
\* empty and the header signs the new URL as a POST; otherwise the URL is
\* unchanged and the header signs a GET.  An exception of the fetch is
\* raised to the caller.
C10_PostIffData ==
  tw.pc = "done" =>
    LET post == tw.data.given /\ Len(tw.data.val) > 0
        sep == IF \E i \in 1..Len(tw.url) : tw.url[i] = "?" THEN "&" ELSE "?"
    IN /\ (tw.sent_method = "POST") <=> post
       /\ post => /\ tw.sent_url = tw.url \o <<sep>> \o tw.data.val
                  /\ tw.body = [given |-> TRUE, val |-> <<>>]
                  /\ tw.signed = [method |-> "POST", url |-> tw.sent_url]
       /\ ~post => /\ tw.sent_url = tw.url
                   /\ tw.signed = [method |-> "GET", url |-> tw.url]
       /\ tw.fetch # "response" => tw.raised = tw.fetch

====
